---- MODULE Spec2Model ----
(***************************************************************************)
(* todo-rs: an interactive todo list kept in todo.json.                    *)
(*                                                                         *)
(* Text (a Rust String or &str) is a sequence of one-character strings.    *)
(* An Item is a record [name, completed]; Todos is a sequence of Items.    *)
(* Rust's Option and Result values are records tagged by None/Some and by  *)
(* ok.  Vec positions are zero-based in the program and one-based in a     *)
(* TLA+ sequence: position i of the program is element i + 1 here.         *)
(***************************************************************************)
EXTENDS Integers, Sequences, FiniteSets, TLC

(***************************************************************************)
(* Bounds of the model.                                                    *)
(***************************************************************************)
\* longest todo list the Add command may build
MaxLen == 3
\* longest item sequence of the save/reload specification
MaxRT == 3

(***************************************************************************)
(* Option values.                                                          *)
(***************************************************************************)
None == [tag |-> "None"]

Some(v) == [tag |-> "Some", val |-> v]

(***************************************************************************)
(* Characters.                                                             *)
(***************************************************************************)
\* char::is_whitespace, on the characters of the model
Whitespace == {" ", "\t", "\n", "\r"}

\* characters serde_json refuses unescaped inside a string (below U+0020)
ControlChars == {"\t", "\n", "\r"}

Digits == <<"0", "1", "2", "3", "4", "5", "6", "7", "8", "9">>

DigitChars == {Digits[k] : k \in 1..10}

DigitValue(c) == (CHOOSE k \in 1..10 : Digits[k] = c) - 1

(***************************************************************************)
(* str::trim: the text without its leading and trailing whitespace.        *)
(***************************************************************************)
RECURSIVE trim_start(_)
trim_start(s) ==
    IF s # <<>> /\ Head(s) \in Whitespace THEN trim_start(Tail(s)) ELSE s

RECURSIVE trim_end(_)
trim_end(s) ==
    IF s # <<>> /\ s[Len(s)] \in Whitespace
    THEN trim_end(SubSeq(s, 1, Len(s) - 1))
    ELSE s

trim(s) == trim_end(trim_start(s))

(***************************************************************************)
(* usize::to_string: the decimal digits of n, no sign, no leading zero.    *)
(***************************************************************************)
RECURSIVE usize_to_string(_)
usize_to_string(n) ==
    IF n < 10
    THEN <<Digits[n + 1]>>
    ELSE usize_to_string(n \div 10) \o <<Digits[(n % 10) + 1]>>

(***************************************************************************)
(* str::parse::<usize>().ok(): an optional "+", then one or more decimal   *)
(* digits and nothing else; no "-", no whitespace, no empty text.  The     *)
(* overflow error of a 64-bit usize needs twenty digits and is outside the *)
(* input lines of the model.                                               *)
(***************************************************************************)
RECURSIVE digits_value(_, _)
digits_value(s, acc) ==
    IF s = <<>>
    THEN acc
    ELSE digits_value(Tail(s), (10 * acc) + DigitValue(Head(s)))

parse_usize(s) ==
    LET body == IF s # <<>> /\ Head(s) = "+" THEN Tail(s) ELSE s
    IN  IF body # <<>> /\ \A k \in 1..Len(body) : body[k] \in DigitChars
        THEN Some(digits_value(body, 0))
        ELSE None

(***************************************************************************)
(* serde_json::to_string(&todos): the compact JSON text of the list, an    *)
(* array of {"name":<string>,"completed":<bool>} objects in list order,    *)
(* with the fields in declaration order (#[derive(Serialize)] on Item).    *)
(***************************************************************************)
TXT_name == <<"n", "a", "m", "e">>

TXT_completed == <<"c", "o", "m", "p", "l", "e", "t", "e", "d">>

TXT_true == <<"t", "r", "u", "e">>

TXT_false == <<"f", "a", "l", "s", "e">>

\* a serializer that writes every character of a string as it is
json_escape_char_raw(c) == <<c>>

\* one character of a JSON string, escaped as serde_json writes it
json_escape_char(c) ==
    CASE c = "\"" -> <<"\\", "\"">>
      [] c = "\\" -> <<"\\", "\\">>
      [] c = "\n" -> <<"\\", "n">>
      [] c = "\t" -> <<"\\", "t">>
      [] c = "\r" -> <<"\\", "r">>
      [] OTHER -> <<c>>

RECURSIVE json_escape(_)
json_escape(s) ==
    IF s = <<>> THEN <<>> ELSE json_escape_char(Head(s)) \o json_escape(Tail(s))

json_string(s) == <<"\"">> \o json_escape(s) \o <<"\"">>

json_bool(b) == IF b THEN TXT_true ELSE TXT_false

json_item(item) ==
    <<"{">> \o json_string(TXT_name) \o <<":">> \o json_string(item.name)
        \o <<",">> \o json_string(TXT_completed) \o <<":">>
        \o json_bool(item.completed) \o <<"}">>

RECURSIVE json_items(_)
json_items(todos) ==
    IF todos = <<>>
    THEN <<>>
    ELSE IF Len(todos) = 1
         THEN json_item(todos[1])
         ELSE json_item(todos[1]) \o <<",">> \o json_items(Tail(todos))

serde_to_string(todos) == <<"[">> \o json_items(todos) \o <<"]">>

(***************************************************************************)
(* serde_json::from_str::<Vec<Item>>(&content): a Result.  It accepts an   *)
(* array of objects that each give "name" (a string) and "completed" (a    *)
(* bool) once, in either order, with whitespace between tokens; a field of *)
(* another name is skipped (#[derive(Deserialize)] without                 *)
(* deny_unknown_fields).  Everything else is an error: empty text, text    *)
(* that is no array, a missing or repeated field, a value of the wrong     *)
(* type, an unescaped control character in a string, a trailing comma,     *)
(* text after the closing bracket.  The positional form of an item         *)
(* (["x",true]), \u escapes and skipped values other than strings, bools   *)
(* and null are outside the file contents of the model.                    *)
(***************************************************************************)
Ok(v, p) == [ok |-> TRUE, val |-> v, pos |-> p]

Err == [ok |-> FALSE, val |-> <<>>, pos |-> 0]

TXT_null == <<"n", "u", "l", "l">>

RECURSIVE skip_ws(_, _)
skip_ws(s, i) ==
    IF i <= Len(s) /\ s[i] \in Whitespace THEN skip_ws(s, i + 1) ELSE i

\* whether the text lit stands at position i of s
at_literal(s, i, lit) ==
    /\ i + Len(lit) - 1 <= Len(s)
    /\ SubSeq(s, i, i + Len(lit) - 1) = lit

at_char(s, i, c) == i <= Len(s) /\ s[i] = c

\* the character an escape sequence \e stands for
json_unescape(e) ==
    CASE e = "\"" -> Some("\"")
      [] e = "\\" -> Some("\\")
      [] e = "/" -> Some("/")
      [] e = "n" -> Some("\n")
      [] e = "t" -> Some("\t")
      [] e = "r" -> Some("\r")
      [] OTHER -> None

\* the rest of a string whose opening quote has been read
RECURSIVE parse_string_body(_, _, _)
parse_string_body(s, i, acc) ==
    IF i > Len(s)
    THEN Err
    ELSE IF s[i] = "\""
    THEN Ok(acc, i + 1)
    ELSE IF s[i] = "\\"
    THEN IF i + 1 > Len(s) \/ json_unescape(s[i + 1]) = None
         THEN Err
         ELSE parse_string_body(s, i + 2, Append(acc, json_unescape(s[i + 1]).val))
    ELSE IF s[i] \in ControlChars
    THEN Err
    ELSE parse_string_body(s, i + 1, Append(acc, s[i]))

parse_string(s, i) ==
    IF at_char(s, i, "\"") THEN parse_string_body(s, i + 1, <<>>) ELSE Err

parse_bool(s, i) ==
    IF at_literal(s, i, TXT_true)
    THEN Ok(TRUE, i + Len(TXT_true))
    ELSE IF at_literal(s, i, TXT_false)
    THEN Ok(FALSE, i + Len(TXT_false))
    ELSE Err

\* a value that is read and dropped (the value of an unknown field)
parse_ignored(s, i) ==
    IF at_char(s, i, "\"")
    THEN parse_string(s, i)
    ELSE IF at_literal(s, i, TXT_null)
    THEN Ok(None, i + Len(TXT_null))
    ELSE parse_bool(s, i)

\* The fields of an object.  parse_fields(s, i, name, completed) reads them
\* from position i, where a key is expected, given the name and completed
\* values read so far (None: not read yet); the operators before it are its
\* steps, in reverse order.
RECURSIVE parse_fields(_, _, _, _)

\* after a field's value: a comma and the next field, or the closing brace
fields_after_value(s, after, name, completed) ==
    IF at_char(s, after, ",")
    THEN parse_fields(s, skip_ws(s, after + 1), name, completed)
    ELSE IF at_char(s, after, "}")
    THEN IF name = None \/ completed = None
         THEN Err
         ELSE Ok([name |-> name.val, completed |-> completed.val], after + 1)
    ELSE Err

\* the value read for the field `key`
fields_value(s, key, value, name, completed) ==
    IF ~value.ok
    THEN Err
    ELSE fields_after_value(s, skip_ws(s, value.pos),
                            IF key = TXT_name THEN Some(value.val) ELSE name,
                            IF key = TXT_completed THEN Some(value.val) ELSE completed)

\* the value of the field `key`, at vpos: a field given twice is an error
fields_at_value(s, key, vpos, name, completed) ==
    IF key = TXT_name
    THEN IF name # None
         THEN Err
         ELSE fields_value(s, key, parse_string(s, vpos), name, completed)
    ELSE IF key = TXT_completed
    THEN IF completed # None
         THEN Err
         ELSE fields_value(s, key, parse_bool(s, vpos), name, completed)
    ELSE fields_value(s, key, parse_ignored(s, vpos), name, completed)

\* the colon after the key
fields_at_colon(s, key, colon, name, completed) ==
    IF at_char(s, colon, ":")
    THEN fields_at_value(s, key, skip_ws(s, colon + 1), name, completed)
    ELSE Err

fields_after_key(s, key, name, completed) ==
    IF key.ok
    THEN fields_at_colon(s, key.val, skip_ws(s, key.pos), name, completed)
    ELSE Err

parse_fields(s, i, name, completed) ==
    fields_after_key(s, parse_string(s, i), name, completed)

parse_item(s, i) ==
    IF at_char(s, i, "{") THEN parse_fields(s, skip_ws(s, i + 1), None, None) ELSE Err

\* The elements of an array.  parse_items(s, i, acc) reads them from
\* position i, where an element is expected, given the elements read so far.
RECURSIVE parse_items(_, _, _)

\* after an element: a comma and the next element, or the closing bracket
items_after_item(s, after, acc) ==
    IF at_char(s, after, ",")
    THEN parse_items(s, skip_ws(s, after + 1), acc)
    ELSE IF at_char(s, after, "]")
    THEN Ok(acc, after + 1)
    ELSE Err

items_item(s, item, acc) ==
    IF item.ok
    THEN items_after_item(s, skip_ws(s, item.pos), Append(acc, item.val))
    ELSE Err

parse_items(s, i, acc) == items_item(s, parse_item(s, i), acc)

\* the array from its opening bracket at `start`, whose first element or
\* closing bracket is at `first`
parse_array(content, start, first) ==
    IF ~at_char(content, start, "[")
    THEN Err
    ELSE IF at_char(content, first, "]")
    THEN Ok(<<>>, first + 1)
    ELSE parse_items(content, first, <<>>)

\* nothing but whitespace may follow the array
parse_end(content, list) ==
    IF list.ok /\ skip_ws(content, list.pos) = Len(content) + 1
    THEN [ok |-> TRUE, val |-> list.val]
    ELSE [ok |-> FALSE, val |-> <<>>]

parse_start(content, start) ==
    parse_end(content, parse_array(content, start, skip_ws(content, start + 1)))

serde_from_str(content) == parse_start(content, skip_ws(content, 1))

(***************************************************************************)
(* The program.                                                            *)
(***************************************************************************)
VARIABLES
    pc,           \* where the process stands (blocked on a read, or ended)
    command,      \* main's `command`
    command_str,  \* the argument of the last get_command call
    todos,        \* the loop body's `todos`
    file,         \* todo.json: None (absent), NotUtf8 (unreadable), Some(text)
    line,         \* the last line read from standard input (None: none yet)
    index,        \* get_operation_index's `index`, an Option<usize>
    screen,       \* the lines print_todo wrote since the last clear_screen
    prompt,       \* the last message written other than by print_todo
    exit_status,  \* None while running, Some(code) after process::exit
    last_check    \* history: None, or Some of the list before the Check of
                  \* the iteration just ended, its index, and whether the
                  \* iteration before was a Check of that index too; kept
                  \* only while the next command is Check

vars ==
    <<pc, command, command_str, todos, file, line, index, screen, prompt,
      exit_status, last_check>>

\* todo.json holding bytes that are no UTF-8 text: read_to_string fails on it
NotUtf8 == [tag |-> "NotUtf8"]

\* the two boxes exchanged
Item_to_string_swapped(item) ==
    IF item.completed
    THEN <<"[", " ", "]", " ">> \o item.name
    ELSE <<"[", "x", "]", " ">> \o item.name

(***************************************************************************)
(* Item::to_string.                                                        *)
(***************************************************************************)
Item_to_string(item) ==
    IF item.completed
    THEN <<"[", "x", "]", " ">> \o item.name
    ELSE <<"[", " ", "]", " ">> \o item.name

TXT_empty_list ==
    <<"[", "E", "m", "p", "t", "y", " ", "T", "o", "d", "o", " ", "L", "i", "s",
      "t", "]">>

(***************************************************************************)
(* print_todo: the lines it writes, in order.                              *)
(***************************************************************************)
print_todo(list, show_index) ==
    (IF Len(list) = 0 THEN <<TXT_empty_list>> ELSE <<>>)
        \o [k \in 1..Len(list) |->
              (IF show_index THEN usize_to_string(k - 1) \o <<" ">> ELSE <<>>)
                  \o Item_to_string(list[k])]
        \o << <<>> >>

\* clear_screen: nothing written before it is left on the screen
clear_screen == <<>>

\* get_command without the uncheck aliases
get_command_no_uncheck(str) ==
    CASE str \in {Some(<<"a", "d", "d">>), Some(<<"a">>)} -> "Add"
      [] str \in {Some(<<"c", "h", "e", "c", "k">>), Some(<<"c">>)} -> "Check"
      [] str \in {Some(<<"r", "e", "m", "o", "v", "e">>), Some(<<"r">>)} -> "Remove"
      [] str \in {Some(<<"p", "r", "i", "n", "t">>), Some(<<"p">>)} -> "Print"
      [] str \in {Some(<<"e", "x", "i", "t">>), Some(<<"e">>)} -> "Exit"
      [] OTHER -> "Continue"

(***************************************************************************)
(* get_command.                                                            *)
(***************************************************************************)
get_command(str) ==
    CASE str \in {Some(<<"a", "d", "d">>), Some(<<"a">>)} -> "Add"
      [] str \in {Some(<<"c", "h", "e", "c", "k">>), Some(<<"c">>)} -> "Check"
      [] str \in {Some(<<"u", "n", "c", "h", "e", "c", "k">>), Some(<<"u">>)} -> "Check"
      [] str \in {Some(<<"r", "e", "m", "o", "v", "e">>), Some(<<"r">>)} -> "Remove"
      [] str \in {Some(<<"p", "r", "i", "n", "t">>), Some(<<"p">>)} -> "Print"
      [] str \in {Some(<<"e", "x", "i", "t">>), Some(<<"e">>)} -> "Exit"
      [] str = None -> "Continue"
      [] OTHER -> "Continue"

\* what get_command writes: a notice for a token it does not know
get_command_prompt(str, before) ==
    IF str # None /\ get_command(str) = "Continue"
    THEN "No Command called"
    ELSE before

\* get_user_input: the line read from standard input, trimmed
get_user_input(raw) == trim(raw)

(***************************************************************************)
(* read_from_file and write_to_file.                                       *)
(***************************************************************************)
\* std::fs::read_to_string(FILE_NAME)
read_to_string(f) ==
    IF f.tag = "Some" THEN [ok |-> TRUE, val |-> f.val] ELSE [ok |-> FALSE, val |-> <<>>]

\* Result::unwrap_or_default and Result::unwrap_or
unwrap_or(result, default) == IF result.ok THEN result.val ELSE default

\* a load that yields one blank item, not the empty list, when the parse fails
read_from_file_blank_item(f) ==
    unwrap_or(serde_from_str(unwrap_or(read_to_string(f), <<>>)),
              <<[name |-> <<>>, completed |-> FALSE]>>)

read_from_file(f) ==
    unwrap_or(serde_from_str(unwrap_or(read_to_string(f), <<>>)), <<>>)

\* a write that appends to the text todo.json holds instead of replacing it
write_to_file_append(list, f) ==
    { [ok |-> TRUE,
       file |-> IF f.tag = "Some" THEN Some(f.val \o serde_to_string(list))
                ELSE IF f = NotUtf8 THEN NotUtf8
                ELSE Some(serde_to_string(list))],
      [ok |-> FALSE, file |-> f] }

\* write_to_file(list) with todo.json holding f: the possible results, each
\* with the file it leaves.  std::fs::write either replaces the whole
\* content, or fails before it opened the file, or fails after it created or
\* truncated it.
write_to_file(list, f) ==
    { [ok |-> TRUE, file |-> Some(serde_to_string(list))],
      [ok |-> FALSE, file |-> f],
      [ok |-> FALSE, file |-> Some(<<>>)] }

(***************************************************************************)
(* The lines standard input may hold, as read_line returns them (with the  *)
(* line terminator, or without it at the end of the input), and the        *)
(* command-line arguments.                                                 *)
(***************************************************************************)
Ln(text) == text \o <<"\n">>

CommandTokens ==
    { <<"a", "d", "d">>, <<"a">>, <<"c", "h", "e", "c", "k">>, <<"c">>,
      <<"u", "n", "c", "h", "e", "c", "k">>, <<"u">>,
      <<"r", "e", "m", "o", "v", "e">>, <<"r">>, <<"p", "r", "i", "n", "t">>,
      <<"p">>, <<"e", "x", "i", "t">>, <<"e">>, <<"z", "z">> }

CommandLines ==
    {Ln(t) : t \in CommandTokens} \cup {<<>>, <<" ", "r", " ", "\r", "\n">>, Ln(<<"A">>)}

CliArgs == {None} \cup {Some(t) : t \in CommandTokens} \cup {Some(<<" ", "a">>)}

\* a name with a quote, a backslash and a tab inside
NameQ == <<"a", "\"", "\\", "\t", "b">>

NameLines == { Ln(<<>>), Ln(NameQ), Ln(<<" ">> \o NameQ \o <<" ", "\t">>) }

IndexLines ==
    {Ln(usize_to_string(i)) : i \in 0..MaxLen}
        \cup { Ln(<<" ", "0", " ">>), Ln(<<"+", "1">>), Ln(<<"-", "1">>),
               Ln(<<"x">>), Ln(<<"1", " ", "1">>), <<>> }

\* the todo.json the program may find when it starts
ItemX == [name |-> <<"x">>, completed |-> FALSE]

ItemQ == [name |-> NameQ, completed |-> TRUE]

ItemOpen == [name |-> <<>>, completed |-> FALSE]

ItemPadded == [name |-> <<" ", "y", "\n">>, completed |-> TRUE]

\* items in the other field order, spread over lines, with a field to skip
TextReordered ==
    <<" ", "[", "\n", " ", "{">> \o json_string(TXT_completed) \o <<":", " ">>
        \o TXT_true \o <<",", "\n">> \o json_string(<<"i", "d">>) \o <<":">>
        \o TXT_null \o <<",">> \o json_string(TXT_name) \o <<":">>
        \o json_string(<<>>) \o <<"}", "\n", "]", "\n">>

\* an item without its completed field
TextMissingField ==
    <<"[", "{">> \o json_string(TXT_name) \o <<":">> \o json_string(<<"x">>)
        \o <<"}", "]">>

\* a saved list cut short
TextTruncated ==
    SubSeq(serde_to_string(<<ItemX>>), 1, Len(serde_to_string(<<ItemX>>)) - 1)

InitFiles ==
    { None, NotUtf8, Some(<<>>), Some(<<"{", "}">>), Some(TXT_null),
      Some(TextMissingField), Some(TextTruncated),
      Some(serde_to_string(<<ItemX>>) \o <<"x">>),
      Some(<<"[", "]">>), Some(TextReordered),
      Some(serde_to_string(<<ItemOpen, ItemQ>>)),
      Some(serde_to_string(<<ItemPadded>>)) }

(***************************************************************************)
(* main, up to the loop: the screen is cleared and the command-line        *)
(* argument is resolved.                                                   *)
(***************************************************************************)
Init ==
    /\ \E arg \in CliArgs :
          /\ command_str = arg
          /\ command = get_command(arg)
          /\ prompt = get_command_prompt(arg, "")
    /\ file \in InitFiles
    /\ pc = "loop"
    /\ todos = <<>>
    /\ line = None
    /\ index = None
    /\ screen = clear_screen
    /\ exit_status = None
    /\ last_check = None

(***************************************************************************)
(* The end of a loop iteration with the list `list` and the screen `shown`:*)
(* write_to_file(todos).unwrap(), then get_new_command up to its read.     *)
(***************************************************************************)
\* an iteration that ends without the write
save_and_prompt_no_write(list, shown) ==
    /\ todos' = list
    /\ screen' = shown
    /\ pc' = "get_new_command"
    /\ prompt' = "Enter command: "
    /\ UNCHANGED <<file, command, command_str, exit_status>>

\* a save whose failure is dropped: the next command is asked for anyway
save_and_prompt_ignore_error(list, shown) ==
    /\ todos' = list
    /\ screen' = shown
    /\ \E result \in write_to_file(list, file) : file' = result.file
    /\ pc' = "get_new_command"
    /\ prompt' = "Enter command: "
    /\ UNCHANGED <<command, command_str, exit_status>>

save_and_prompt(list, shown) ==
    /\ todos' = list
    /\ screen' = shown
    /\ \E result \in write_to_file(list, file) :
          /\ file' = result.file
          /\ pc' = IF result.ok THEN "get_new_command" ELSE "panicked"
          /\ prompt' = IF result.ok THEN "Enter command: " ELSE prompt
    /\ UNCHANGED <<command, command_str, exit_status>>

(***************************************************************************)
(* One loop iteration from its top (read_from_file, process_command) to    *)
(* the next read of standard input, by command.                            *)
(***************************************************************************)
\* Add: add_todo asks for the name and waits for it
IterAdd ==
    /\ pc = "loop"
    /\ command = "Add"
    /\ todos' = read_from_file(file)
    /\ screen' = clear_screen
    /\ prompt' = "What's the Todo's name?"
    /\ pc' = "add_todo"
    /\ index' = None
    /\ UNCHANGED <<command, command_str, file, line, exit_status, last_check>>

\* the new item put first instead of last
add_todo_front(list, name) == <<[name |-> name, completed |-> FALSE]>> \o list

\* Vec::push of the new item
add_todo(list, name) == Append(list, [name |-> name, completed |-> FALSE])

\* print_todo(todos, false) at the end of process_command, then the save
show_and_save(list) == save_and_prompt(list, print_todo(list, FALSE))

\* add_todo reads the name; the list is shown and saved
AddTodoLine ==
    /\ pc = "add_todo"
    /\ Len(todos) < MaxLen
    /\ \E raw \in NameLines :
          /\ line' = Some(raw)
          /\ show_and_save(add_todo(todos, get_user_input(raw)))
    /\ UNCHANGED <<index, last_check>>

\* Check and Remove without the test for an empty list
begin_indexed_unguarded(list) ==
    /\ index' = None
    /\ todos' = list
    /\ screen' = print_todo(list, TRUE)
    /\ prompt' = "Which one?"
    /\ pc' = "get_operation_index"
    /\ UNCHANGED <<command, command_str, file, line, exit_status>>

\* Check and Remove on the loaded list: nothing to do on an empty list;
\* otherwise get_operation_index shows the list with positions and waits
begin_indexed(list) ==
    /\ index' = None
    /\ IF Len(list) = 0
       THEN /\ show_and_save(list)
            /\ UNCHANGED line
       ELSE /\ todos' = list
            /\ screen' = print_todo(list, TRUE)
            /\ prompt' = "Which one?"
            /\ pc' = "get_operation_index"
            /\ UNCHANGED <<command, command_str, file, line, exit_status>>

IterCheck ==
    /\ pc = "loop"
    /\ command = "Check"
    /\ begin_indexed(read_from_file(file))
    /\ UNCHANGED last_check

IterRemove ==
    /\ pc = "loop"
    /\ command = "Remove"
    /\ begin_indexed(read_from_file(file))
    /\ UNCHANGED last_check

\* the item marked completed instead of toggled
check_todo_set(list, i) == [list EXCEPT ![i + 1].completed = TRUE]

\* the toggled item moved to the end of the list
check_todo_sink(list, i) ==
    SubSeq(list, 1, i) \o SubSeq(list, i + 2, Len(list))
        \o <<[list[i + 1] EXCEPT !.completed = ~list[i + 1].completed]>>

\* todos[index].completed = !todos[index].completed
check_todo(list, i) ==
    [list EXCEPT ![i + 1].completed = ~list[i + 1].completed]

\* the last item removed instead of the chosen one (Vec::pop)
remove_todo_pop(list, i) == SubSeq(list, 1, Len(list) - 1)

\* todos.remove(index)
remove_todo(list, i) ==
    SubSeq(list, 1, i) \o SubSeq(list, i + 2, Len(list))

\* the loop condition with > for >=: the length itself passes as an index
index_rejected_off_by_one(idx, list) == idx = None \/ idx.val > Len(list)

\* the loop condition of get_operation_index: Option orders None first
index_rejected(idx, list) == idx = None \/ idx.val >= Len(list)

\* index resolution that gives up after one rejected line: the iteration
\* ends with the list as it was
resolve_index_give_up(idx) ==
    /\ index' = idx
    /\ IF index_rejected(idx, todos)
       THEN show_and_save(todos)
       ELSE IF command = "Check"
            THEN show_and_save(check_todo(todos, idx.val))
            ELSE show_and_save(remove_todo(todos, idx.val))
    /\ UNCHANGED last_check

\* what a Check of position i of the list in memory leaves in last_check
checked_now(i) ==
    Some([list |-> todos, index |-> i,
          again |-> last_check # None /\ last_check.val.index = i])

\* get_operation_index with the parsed line: it asks again, or returns the
\* index to check_todo or remove_todo, and the list is shown and saved
resolve_index(idx) ==
    /\ index' = idx
    /\ IF index_rejected(idx, todos)
       THEN /\ prompt' = "Invalid input. Try again"
            /\ UNCHANGED <<pc, command, command_str, todos, file, screen,
                           exit_status, last_check>>
       ELSE IF command = "Check"
            THEN /\ show_and_save(check_todo(todos, idx.val))
                 /\ last_check' = checked_now(idx.val)
            ELSE /\ show_and_save(remove_todo(todos, idx.val))
                 /\ last_check' = None

\* get_operation_index reads a line
IndexLine ==
    /\ pc = "get_operation_index"
    /\ \E raw \in IndexLines :
          /\ line' = Some(raw)
          /\ resolve_index(parse_usize(get_user_input(raw)))

IterPrint ==
    /\ pc = "loop"
    /\ command = "Print"
    /\ show_and_save(read_from_file(file))
    /\ index' = None
    /\ UNCHANGED <<line, last_check>>

\* a Continue iteration that saves an empty list
IterContinue_unloaded ==
    /\ pc = "loop"
    /\ command = "Continue"
    /\ save_and_prompt(<<>>, clear_screen)
    /\ index' = None
    /\ UNCHANGED <<line, last_check>>

IterContinue ==
    /\ pc = "loop"
    /\ command = "Continue"
    /\ save_and_prompt(read_from_file(file), clear_screen)
    /\ index' = None
    /\ UNCHANGED <<line, last_check>>

\* std::process::exit(1)
EXIT_CODE == 1

\* an Exit that saves the list before it ends the process
IterExit_saving ==
    /\ pc = "loop"
    /\ command = "Exit"
    /\ todos' = read_from_file(file)
    /\ screen' = clear_screen
    /\ exit_status' = Some(EXIT_CODE)
    /\ pc' = "exited"
    /\ index' = None
    /\ \E result \in write_to_file(read_from_file(file), file) : file' = result.file
    /\ UNCHANGED <<command, command_str, line, prompt, last_check>>

IterExit ==
    /\ pc = "loop"
    /\ command = "Exit"
    /\ todos' = read_from_file(file)
    /\ screen' = clear_screen
    /\ exit_status' = Some(EXIT_CODE)
    /\ pc' = "exited"
    /\ index' = None
    /\ UNCHANGED <<command, command_str, file, line, prompt, last_check>>

\* get_new_command reads the next command
NewCommandLine ==
    /\ pc = "get_new_command"
    /\ \E raw \in CommandLines :
          /\ line' = Some(raw)
          /\ command_str' = Some(get_user_input(raw))
          /\ command' = get_command(Some(get_user_input(raw)))
          /\ prompt' = get_command_prompt(Some(get_user_input(raw)), prompt)
          /\ last_check' = IF get_command(Some(get_user_input(raw))) = "Check"
                           THEN last_check
                           ELSE None
    /\ pc' = "loop"
    /\ UNCHANGED <<todos, file, index, screen, exit_status>>

Next ==
    \/ IterAdd
    \/ AddTodoLine
    \/ IterCheck
    \/ IterRemove
    \/ IndexLine
    \/ IterPrint
    \/ IterContinue
    \/ IterExit
    \/ NewCommandLine

Spec == Init /\ [][Next]_vars

(***************************************************************************)
(* Saving and reloading on its own: write_to_file of an item sequence,     *)
(* then read_from_file.                                                    *)
(***************************************************************************)
RTNames ==
    { <<>>, <<"x">>, <<" ", "y", "\n">>, <<"a", "\"", "\\", "\t", "b">> }

RTItems == [name : RTNames, completed : BOOLEAN]

RTLists == UNION {[1..n -> RTItems] : n \in 0..MaxRT}

InitRT ==
    /\ todos \in RTLists
    /\ file \in {None, NotUtf8, Some(serde_to_string(<<ItemX>>))}
    /\ pc = "rt_start"
    /\ command = "Continue"
    /\ command_str = None
    /\ line = None
    /\ index = None
    /\ screen = clear_screen
    /\ prompt = ""
    /\ exit_status = None
    /\ last_check = None

RTWrite ==
    /\ pc = "rt_start"
    /\ \E result \in write_to_file(todos, file) :
          /\ file' = result.file
          /\ pc' = IF result.ok THEN "rt_written" ELSE "panicked"
    /\ UNCHANGED <<command, command_str, todos, line, index, screen, prompt,
                   exit_status, last_check>>

RTRead ==
    /\ pc = "rt_written"
    /\ todos' = read_from_file(file)
    /\ pc' = "rt_read"
    /\ UNCHANGED <<command, command_str, file, line, index, screen, prompt,
                   exit_status, last_check>>

NextRT == RTWrite \/ RTRead

SpecRT == InitRT /\ [][NextRT]_vars

(***************************************************************************)
(* Properties.                                                             *)
(***************************************************************************)
\* whether every character of s is whitespace
AllWhitespace(s) == \A k \in 1..Len(s) : s[k] \in Whitespace

\* whether n is raw without the whitespace at its two ends
IsTrimmed(n, raw) ==
    /\ n = <<>> \/ (n[1] \notin Whitespace /\ n[Len(n)] \notin Whitespace)
    /\ \E i \in 0..Len(raw) : \E j \in i..Len(raw) :
          /\ n = SubSeq(raw, i + 1, j)
          /\ AllWhitespace(SubSeq(raw, 1, i))
          /\ AllWhitespace(SubSeq(raw, j + 1, Len(raw)))

\* the text the user typed on a line: the line without its terminator
Typed(raw) ==
    IF raw # <<>> /\ raw[Len(raw)] = "\n" THEN SubSeq(raw, 1, Len(raw) - 1) ELSE raw

\* C1: write_to_file(L) followed by read_from_file() returns L: the same
\* length and, at every position, the same name and completed value.
RoundTrip ==
    [][pc = "rt_written" =>
          /\ Len(todos') = Len(todos)
          /\ \A k \in 1..Len(todos) :
                /\ todos'[k].name = todos[k].name
                /\ todos'[k].completed = todos[k].completed]_vars

\* a list of three items, with names that need escaping, saved and reloaded
RoundTripWitness ==
    /\ pc = "rt_read"
    /\ Len(todos) = 3
    /\ todos[3] = [name |-> <<>>, completed |-> TRUE]
    /\ todos[1] = [name |-> <<"a", "\"", "\\", "\t", "b">>, completed |-> TRUE]
    /\ todos[2] = [name |-> <<" ", "y", "\n">>, completed |-> FALSE]

\* C2 as stated: an Add iteration appends the item {name: X, completed: false},
\* X being the text the user typed, and keeps every item of L.
AddAppendsTyped ==
    [][pc = "add_todo" /\ pc' = "get_new_command" =>
          todos' = todos \o <<[name |-> Typed(line'.val), completed |-> FALSE]>>]_vars

\* C2, amended: an Add iteration appends one item, with completed = false and
\* with the typed text without its leading and trailing whitespace as its
\* name, and keeps every item of L at its position.
AddAppendsTrimmed ==
    [][pc = "add_todo" /\ pc' # "add_todo" =>
          /\ Len(todos') = Len(todos) + 1
          /\ IsTrimmed(todos'[Len(todos')].name, line'.val)
          /\ todos'[Len(todos')].completed = FALSE
          /\ \A k \in 1..Len(todos) : todos'[k] = todos[k]]_vars

\* an Add at the end of a list of two items, typed with whitespace around
\* the name
AddWitness ==
    /\ pc = "get_new_command"
    /\ command = "Add"
    /\ line = Some(<<" ", "a", "\"", "\\", "\t", "b", " ", "\t", "\n">>)
    /\ Len(todos) = 3
    /\ todos[3] = [name |-> <<"a", "\"", "\\", "\t", "b">>, completed |-> FALSE]

\* C3: a Check iteration with the valid index i keeps the length and every
\* name, negates completed at position i and keeps it everywhere else.
CheckTogglesOne ==
    [][pc = "get_operation_index" /\ command = "Check"
          /\ pc' # "get_operation_index" =>
          /\ index' # None
          /\ index'.val \in 0..(Len(todos) - 1)
          /\ Len(todos') = Len(todos)
          /\ \A k \in 1..Len(todos) :
                /\ todos'[k].name = todos[k].name
                /\ todos'[k].completed =
                      IF k = index'.val + 1
                      THEN ~todos[k].completed
                      ELSE todos[k].completed]_vars

\* a Check of position 1 of a longer list that left the item not completed
CheckWitness ==
    /\ pc = "get_new_command"
    /\ command = "Check"
    /\ index = Some(1)
    /\ Len(todos) = 3
    /\ ~todos[2].completed
    /\ todos[3].completed

\* C4: a Remove iteration with the valid index i deletes exactly the item at
\* position i: one item fewer, the others in their order and unchanged.
RemoveDeletesOne ==
    [][pc = "get_operation_index" /\ command = "Remove"
          /\ pc' # "get_operation_index" =>
          /\ index' # None
          /\ index'.val \in 0..(Len(todos) - 1)
          /\ Len(todos') = Len(todos) - 1
          /\ \A k \in 1..Len(todos') :
                todos'[k] = IF k <= index'.val THEN todos[k] ELSE todos[k + 1]]_vars

\* a Remove of position 0 that left two items
RemoveWitness ==
    /\ pc = "get_new_command"
    /\ command = "Remove"
    /\ index = Some(0)
    /\ Len(todos) = 2
    /\ todos[1].name # todos[2].name
\* the tokens get_command is said to know
AliasTokens ==
    { <<"a", "d", "d">>, <<"a">>, <<"c", "h", "e", "c", "k">>, <<"c">>,
      <<"u", "n", "c", "h", "e", "c", "k">>, <<"u">>,
      <<"r", "e", "m", "o", "v", "e">>, <<"r">>, <<"p", "r", "i", "n", "t">>,
      <<"p">>, <<"e", "x", "i", "t">>, <<"e">> }

\* C5: get_command resolves add/a to Add, check/c/uncheck/u to Check,
\* remove/r to Remove, print/p to Print, exit/e to Exit, and an absent or any
\* other token to Continue, whatever the list and the earlier commands are.
CommandAliasing ==
    /\ command_str \in {Some(<<"a", "d", "d">>), Some(<<"a">>)} => command = "Add"
    /\ command_str \in {Some(<<"c", "h", "e", "c", "k">>), Some(<<"c">>),
                        Some(<<"u", "n", "c", "h", "e", "c", "k">>), Some(<<"u">>)}
          => command = "Check"
    /\ command_str \in {Some(<<"r", "e", "m", "o", "v", "e">>), Some(<<"r">>)}
          => command = "Remove"
    /\ command_str \in {Some(<<"p", "r", "i", "n", "t">>), Some(<<"p">>)}
          => command = "Print"
    /\ command_str \in {Some(<<"e", "x", "i", "t">>), Some(<<"e">>)} => command = "Exit"
    /\ command_str = None => command = "Continue"
    /\ command_str \notin {Some(t) : t \in AliasTokens} => command = "Continue"

\* "uncheck" read after other commands, with a list of two items, is Check
AliasWitness ==
    /\ pc = "loop"
    /\ command_str = Some(<<"u", "n", "c", "h", "e", "c", "k">>)
    /\ command = "Check"
    /\ line # None
    /\ Len(todos) = 2

\* C6: an iteration whose command is Print or Continue leaves the list as it
\* was loaded, and the list the next iteration loads is that same list.
PrintContinueKeepList ==
    [][pc = "loop" /\ command \in {"Print", "Continue"} =>
          /\ todos' = read_from_file(file)
          /\ pc' = "get_new_command" =>
                read_from_file(file') = read_from_file(file)]_vars

\* a Continue iteration for the unknown token zz, on a list of two items
ContinueWitness ==
    /\ pc = "get_new_command"
    /\ command = "Continue"
    /\ command_str = Some(<<"z", "z">>)
    /\ Len(todos) = 2
    /\ read_from_file(file) = todos

\* whether todo.json is absent, unreadable or no array of items
Unparsable(f) ==
    \/ f = None
    \/ f = NotUtf8
    \/ f.tag = "Some" /\ ~serde_from_str(f.val).ok

\* C7: with todo.json absent, unreadable or unparsable the iteration works on
\* the empty list and the process goes on: it ends only by the Exit command
\* or by a failed save.
LoadNeverFails ==
    [][pc = "loop" /\ Unparsable(file) =>
          /\ todos' = <<>>
          /\ pc' \in {"add_todo", "get_new_command", "exited", "panicked"}
          /\ pc' = "exited" => command = "Exit"
          /\ pc' = "panicked" => file' # Some(serde_to_string(todos'))
          /\ pc' = "get_new_command" => read_from_file(file') = <<>>]_vars

\* Add as the first command on a todo.json cut short: the name is asked for
\* with the empty list loaded
CorruptLoadWitness ==
    /\ pc = "add_todo"
    /\ line = None
    /\ file = Some(TextTruncated)
    /\ todos = <<>>

\* C8: Exit ends the process at once with a non-zero status and without a
\* save: todo.json is what the previous iteration left (reading the command
\* does not touch it), and nothing happens after the exit.
ExitWithoutSave ==
    [][/\ pc = "loop" /\ command = "Exit" =>
             /\ pc' = "exited"
             /\ exit_status' # None
             /\ exit_status'.val # 0
             /\ file' = file
       /\ pc = "get_new_command" => file' = file
       /\ pc # "exited"
       /\ pc' = "exited" => command = "Exit"]_vars

\* Exit read as a later command, with one item saved before it
ExitWitness ==
    /\ pc = "exited"
    /\ exit_status = Some(1)
    /\ line # None
    /\ Len(todos) = 1

\* C9: after every iteration that is not Exit todo.json holds the list the
\* command left, and the list the next iteration loads is the list in memory
\* at the end of this one.
SavedEveryIteration ==
    /\ [](pc = "get_new_command" => read_from_file(file) = todos)
    /\ [][pc = "loop" /\ line # None => todos' = todos]_vars

\* a later iteration (Add) that loaded the two items of the iterations before
ReloadWitness ==
    /\ pc = "add_todo"
    /\ line # None
    /\ Len(todos) = 2
    /\ todos[1].completed

\* the label of the item at element k of a list, a position below ten
PositionLabel(k) == <<Digits[k], " ">>

\* whether the screen shows the list: the empty-list marker for an empty
\* list, else one line per item in list order, each the position (when
\* positions are asked for), the box and the name; a blank line ends it
Shows(list, positions) ==
    IF list = <<>>
    THEN screen = <<TXT_empty_list, <<>> >>
    ELSE /\ Len(screen) = Len(list) + 1
         /\ screen[Len(screen)] = <<>>
         /\ \A k \in 1..Len(list) :
               screen[k] =
                   (IF positions THEN PositionLabel(k) ELSE <<>>)
                       \o (IF list[k].completed
                           THEN <<"[", "x", "]", " ">>
                           ELSE <<"[", " ", "]", " ">>)
                       \o list[k].name

\* C10: print_todo writes the items in list order, one line each, as
\* "[x] <name>" or "[ ] <name>", with the zero-based position before it only
\* in index resolution, and the empty-list marker for an empty list.
DisplayFormat ==
    /\ pc = "get_operation_index" => Shows(todos, TRUE)
    /\ pc \in {"get_new_command", "panicked"}
          /\ command \in {"Add", "Check", "Remove", "Print"}
          => Shows(todos, FALSE)

\* index resolution showing a completed and an open item
DisplayWitness ==
    /\ pc = "get_operation_index"
    /\ Len(todos) = 2
    /\ todos[1].completed
    /\ ~todos[2].completed
    /\ screen[1] = <<"0", " ", "[", "x", "]", " ">> \o todos[1].name
\* whether a step ends a loop iteration other than by Exit: it leaves the
\* loop top, the name prompt or index resolution for the save
EndsIteration ==
    /\ pc \in {"loop", "add_todo", "get_operation_index"}
    /\ pc' \in {"get_new_command", "panicked"}

\* C11: when the write at the end of an iteration fails (todo.json does not
\* hold the list afterwards) the process ends there, abruptly (no exit
\* status is set), and no further command is read or processed.
FailedSaveEnds ==
    [][/\ EndsIteration /\ file' # Some(serde_to_string(todos')) =>
             /\ pc' = "panicked"
             /\ exit_status' = None
       /\ pc # "panicked"]_vars

\* an Add in a later iteration whose save failed: the list of two items is
\* in memory only
FailedSaveWitness ==
    /\ pc = "panicked"
    /\ command = "Add"
    /\ line # None
    /\ Len(todos) = 2
    /\ read_from_file(file) # todos
\* the digits of a numeral: the text without the + usize allows before it
NumeralDigits(n) == IF n # <<>> /\ n[1] = "+" THEN Tail(n) ELSE n

\* whether the text n is a non-negative integer: one or more digits
IsNumeral(n) ==
    /\ NumeralDigits(n) # <<>>
    /\ \A k \in 1..Len(NumeralDigits(n)) : NumeralDigits(n)[k] \in DigitChars

NumeralValue(n) == digits_value(NumeralDigits(n), 0)

\* whether the line read (get_user_input trims it) is a valid index into a
\* list of len items
IsIndexLine(raw, len) ==
    /\ IsTrimmed(trim(raw), raw)
    /\ IsNumeral(trim(raw))
    /\ NumeralValue(trim(raw)) < len

\* C12: get_operation_index returns i only for a line that parses as a
\* non-negative integer i below the list length; on any other line it writes
\* the invalidity notice and asks again, with the list, the file and the
\* screen untouched and the process alive; so the position Check and Remove
\* use is inside the list.
IndexResolution ==
    [][pc = "get_operation_index" =>
          IF pc' = "get_operation_index"
          THEN /\ ~IsIndexLine(line'.val, Len(todos))
               /\ prompt' = "Invalid input. Try again"
               /\ todos' = todos
               /\ file' = file
               /\ screen' = screen
               /\ exit_status' = None
          ELSE /\ IsIndexLine(line'.val, Len(todos))
               /\ index' = Some(NumeralValue(trim(line'.val)))
               /\ index'.val \in 0..(Len(todos) - 1)
               /\ pc' \in {"get_new_command", "panicked"}]_vars

\* the list length itself, typed as an index, answered with the notice
IndexRejectedWitness ==
    /\ pc = "get_operation_index"
    /\ prompt = "Invalid input. Try again"
    /\ index = Some(Len(todos))
    /\ Len(todos) = 2
\* C13: Check and Remove on an empty list change nothing and do not enter
\* index resolution: the list stays empty, no index prompt is written and no
\* line is read, so the next line read is the one get_new_command takes as
\* the next command.
EmptyListNoOp ==
    /\ [](pc = "get_operation_index" => todos # <<>>)
    /\ [][/\ pc = "loop" /\ command \in {"Check", "Remove"}
                /\ read_from_file(file) = <<>> =>
                /\ todos' = <<>>
                /\ pc' \in {"get_new_command", "panicked"}
                /\ line' = line
                /\ index' = None
                /\ prompt' # "Which one?"
                /\ pc' = "get_new_command" => read_from_file(file') = <<>>
          /\ pc = "get_new_command" =>
                /\ pc' = "loop"
                /\ line' # None
                /\ command_str' # None
                /\ IsTrimmed(command_str'.val, line'.val)]_vars

\* a Remove read as "r" on an empty list: the iteration is over, "r" is
\* still the last line read and the empty-list marker is shown
EmptyRemoveWitness ==
    /\ pc = "get_new_command"
    /\ command = "Remove"
    /\ line = Some(<<"r", "\n">>)
    /\ todos = <<>>
    /\ index = None
    /\ screen = <<TXT_empty_list, <<>> >>
\* C14: in index resolution a valid index ends the resolution: the operation
\* is applied, the list is saved and the command prompt follows (unless the
\* save fails); any other line keeps the program in index resolution, which
\* goes on reading lines however many were rejected before.
RetryUntilValid ==
    /\ [](pc = "get_operation_index" => ENABLED IndexLine)
    /\ [][pc = "get_operation_index" =>
             IF IsIndexLine(line'.val, Len(todos))
             THEN /\ pc' \in {"get_new_command", "panicked"}
                  /\ command = "Check" => Len(todos') = Len(todos) /\ todos' # todos
                  /\ command = "Remove" => Len(todos') = Len(todos) - 1
                  /\ pc' = "get_new_command" =>
                        /\ file' = Some(serde_to_string(todos'))
                        /\ prompt' = "Enter command: "
             ELSE /\ pc' = "get_operation_index"
                  /\ command' = command
                  /\ todos' = todos]_vars

\* a Check still in index resolution after the rejected line "-1"
RetryWitness ==
    /\ pc = "get_operation_index"
    /\ command = "Check"
    /\ line = Some(<<"-", "1", "\n">>)
    /\ index = None
    /\ prompt = "Invalid input. Try again"
    /\ Len(todos) = 3
\* C15: after every completed non-Exit iteration todo.json holds a
\* well-formed serialization of the current list, whatever it held before
\* (so it does from the first command prompt on); an absent or corrupt
\* todo.json is replaced by the empty array in a first iteration that is
\* Print, Continue, Check or Remove, and is left as it was by an Exit given
\* as the first command.
FileWellFormedAfterIteration ==
    /\ [](pc = "get_new_command" \/ (line # None /\ pc # "panicked") =>
             /\ file.tag = "Some"
             /\ serde_from_str(file.val) = [ok |-> TRUE, val |-> todos])
    /\ [][/\ pc = "loop" /\ Unparsable(file) /\ pc' = "get_new_command" =>
                file' = Some(<<"[", "]">>)
          /\ pc = "loop" /\ Unparsable(file) /\ command = "Exit" =>
                file' = file /\ Unparsable(file')]_vars

\* no command-line argument: the first iteration, a Continue, is over and
\* todo.json holds the empty array
FirstSaveWitness ==
    /\ pc = "get_new_command"
    /\ line = None
    /\ command_str = None
    /\ command = "Continue"
    /\ file = Some(<<"[", "]">>)
    /\ todos = <<>>

\* C16: two consecutive Check iterations on the same valid index, through
\* whichever of the tokens check, c, uncheck and u, leave the list exactly
\* as it was before the first of them.
CheckTwiceRestores ==
    [][/\ pc = "get_operation_index" /\ command = "Check"
       /\ pc' # "get_operation_index"
       /\ last_check # None
       /\ last_check.val.index = index'.val
       => todos' = last_check.val.list]_vars

\* position 1 of a list of three items checked, and checked again by "u" in
\* the iteration after it
CheckTwiceWitness ==
    /\ pc = "get_new_command"
    /\ command = "Check"
    /\ command_str = Some(<<"u">>)
    /\ index = Some(1)
    /\ last_check # None
    /\ last_check.val.again
    /\ Len(todos) = 3

====
